---------------------------- MODULE Spec2Model ----------------------------
(***************************************************************************)
(* A model of qfpayslim (src/qfpay.go): the request signer GenerateSign,   *)
(* the payment request builder MakePayment, the response envelope          *)
(* Request.Do with Client.Query, and the path extractor arrange/collect.   *)
(*                                                                         *)
(* Go strings that the code splits, sorts, joins or escapes (path          *)
(* expressions, JSON object keys, payload keys and values, form bodies)    *)
(* are sequences of one-character strings.  Go strings that are only       *)
(* copied and compared (JSON string leaves, the envelope's fields) are     *)
(* TLA+ strings.                                                           *)
(***************************************************************************)
EXTENDS Integers, Sequences, FiniteSets, TLC

VARIABLES
  op,       \* the operation of the current call
  pc,       \* position of the current call: "idle", "exchange", "loop", "done"
  dest,     \* Do's variadic dest arguments (arrange: <<target, key>>)
  client,   \* the Client: Prefix, AppCode, Key, Debug
  b,        \* the response body read by Do (arrange: its data argument)
  n,        \* Do's loop index over the (destination, path) pairs
  mem,      \* the caller's destination variables
  mem0,     \* what the destination variables held when the call started
  ret,      \* how the call ended: its kind and the error it returned
  trips,    \* calls of http.DefaultClient.Do made by the current call
  args,     \* the arguments of Query (outTradeNo) and of MakePayment
  payload,  \* the url.Values handed to GenerateSign
  orders,   \* the map iteration orders GenerateSign has run with on payload
  signs,    \* the signatures GenerateSign has returned for payload
  req       \* the request MakePayment built: its form body and X-QF-SIGN

vars == <<op, pc, dest, client, b, n, mem, mem0, ret, trips, args,
          payload, orders, signs, req>>

----------------------------------------------------------------------------
(* Bounds of the model.                                                    *)

\* longest JSON array in a response body
MaxElems == 2
\* most (destination, path) pairs in one Do call
MaxPairs == 2
\* most keys in a payload handed to GenerateSign directly
MaxKeys == 2
\* most caller-supplied extra fields in one MakePayment call
MaxExtra == 1

----------------------------------------------------------------------------
(* Strings.                                                                *)

Star == <<"*">>
Empty == <<>>

\* strings.Join(segs, sep)
RECURSIVE Join(_, _)
Join(segs, sep) ==
  IF segs = <<>> THEN <<>>
  ELSE IF Len(segs) = 1 THEN Head(segs)
  ELSE Head(segs) \o sep \o Join(Tail(segs), sep)

\* strings.Split(s, sep) for a one-character separator: the substrings
\* between the separators, one more than there are separators, so
\* Split("", ".") is [""]
Split(s, sep) ==
  LET seps == {i \in 1..Len(s) : s[i] = sep}
      \* the place of the i-th separator; 0 and Len(s) + 1 bound the string
      at(i) == IF i = 0 THEN 0
               ELSE IF i > Cardinality(seps) THEN Len(s) + 1
               ELSE CHOOSE x \in seps : Cardinality({y \in seps : y < x}) = i - 1
  IN  [i \in 1..Cardinality(seps) + 1 |-> SubSeq(s, at(i - 1) + 1, at(i) - 1)]

\* JSON object keys and path segments
kData == <<"d", "a", "t", "a">>
kB == <<"b">>
kC == <<"c">>
kRespcd == <<"r", "e", "s", "p", "c", "d">>
kResperr == <<"r", "e", "s", "p", "e", "r", "r">>
kRespmsg == <<"r", "e", "s", "p", "m", "s", "g">>
kOutTradeNo == <<"o", "u", "t", "_", "t", "r", "a", "d", "e", "_", "n", "o">>

----------------------------------------------------------------------------
(* JSON documents: <<kind, value>>.  "bad" is a body that is not valid     *)
(* JSON.  (Pairs, not records: TLC orders a pair by its kind first, so     *)
(* documents of different kinds can be told apart.)                        *)

JNull == <<"null", "null">>
JNum == <<"num", "1">>
JBad == <<"bad", "bad">>
JStr(s) == <<"str", s>>
JArr(e) == <<"arr", e>>
JObj(m) == <<"obj", m>>
EmptyMap == [k \in {} |-> JNull]

----------------------------------------------------------------------------
(* reflect.Value: [k, v] with k the kind; Invalid is the zero Value.       *)

Invalid == [k |-> "invalid", v |-> "none"]
GoString(s) == [k |-> "string", v |-> s]
GoSlice(e) == [k |-> "slice", v |-> e]
GoMap(m) == [k |-> "map", v |-> m]
GoStruct(r) == [k |-> "struct", v |-> r]

\* a string field of a struct, decoded from a JSON object into prev
\* (encoding/json leaves a field alone when its key is absent, null or
\* of another JSON type)
Field(j, key, prev) ==
  IF j[1] = "obj" /\ key \in DOMAIN j[2] /\ j[2][key][1] = "str"
  THEN j[2][key][2] ELSE prev

\* whether decoding field key of a struct reports an UnmarshalTypeError
FieldErr(j, key) ==
  j[1] = "obj" /\ key \in DOMAIN j[2] /\ j[2][key][1] \notin {"str", "null"}

\* QueryResponse, cut to two of its twenty-two string fields
ZeroQueryResponse == [Respcd |-> "", OutTradeNo |-> ""]

DecodeQueryResponse(j, prev) ==
  [Respcd |-> Field(j, kRespcd, prev.Respcd),
   OutTradeNo |-> Field(j, kOutTradeNo, prev.OutTradeNo)]

\* the zero value of a type: reflect.New(baseType).Elem()
Zero(base) ==
  IF base = "QueryResponse" THEN GoStruct(ZeroQueryResponse) ELSE GoString("")

\* the synthetic decode shape arrange builds from the last key to the first
RECURSIVE ShapeOf(_, _)
ShapeOf(keys, base) ==
  IF keys = <<>> THEN [k |-> base, of |-> "none"]
  ELSE LET typ == ShapeOf(Tail(keys), base)
       IN  IF Head(keys) = Star THEN [k |-> "slice", of |-> typ]
           ELSE IF Head(keys) # Empty THEN [k |-> "map", of |-> typ]
           ELSE typ

\* json.Unmarshal(data, d.Interface()) into a fresh value of shape typ, its
\* error dropped: a JSON value of another kind than the shape leaves the
\* zero value in its place, invalid JSON leaves the whole value zero
RECURSIVE Decode(_, _)
Decode(j, typ) ==
  CASE typ.k = "slice" ->
         IF j[1] = "arr"
         THEN GoSlice([i \in 1..Len(j[2]) |-> Decode(j[2][i], typ.of)])
         ELSE GoSlice(<<>>)
    [] typ.k = "map" ->
         IF j[1] = "obj"
         THEN GoMap([key \in DOMAIN j[2] |-> Decode(j[2][key], typ.of)])
         ELSE GoMap(EmptyMap)
    [] typ.k = "QueryResponse" ->
         GoStruct(DecodeQueryResponse(j, ZeroQueryResponse))
    [] OTHER ->
         IF j[1] = "str" THEN GoString(j[2]) ELSE GoString("")

\* x.MapIndex(reflect.ValueOf(key)): the zero Value when the key is missing
MapIndex(x, key) == IF key \in DOMAIN x.v THEN x.v[key] ELSE Invalid

Panicked == [panic |-> TRUE, out |-> <<>>]

\* collect: the values at keys under x, in encounter order.  Value.Len and
\* Value.MapIndex panic on the zero Value.
RECURSIVE collect(_, _)
RECURSIVE collectEach(_, _, _)
collectEach(x, k, i) ==
  IF i > Len(x.v) THEN [panic |-> FALSE, out |-> <<>>]
  ELSE LET first == collect(x.v[i], k)
           rest == collectEach(x, k, i + 1)
       IN  IF first.panic \/ rest.panic THEN Panicked
           ELSE [panic |-> FALSE, out |-> first.out \o rest.out]

collect(x, keys) ==
  IF keys = <<>> THEN [panic |-> FALSE, out |-> <<x>>]
  ELSE IF Head(keys) = Star
       THEN IF x.k # "slice" THEN Panicked
            ELSE collectEach(x, Tail(keys), 1)
  ELSE IF Head(keys) # Empty
       THEN IF x.k # "map" THEN Panicked
            ELSE collect(MapIndex(x, Head(keys)), Tail(keys))
  ELSE collect(x, Tail(keys))

----------------------------------------------------------------------------
(* Do's dest arguments: <<kind, v>>.  A pointer names the caller's         *)
(* variable it points to: s is a string, l a []string, responses a         *)
(* []QueryResponse, raw a []byte and rec a QueryResponse.                  *)

Ptr(id) == <<"ptr", id>>
\* (*string)(nil)
NilPtr == <<"nilptr", "none">>
\* a path expression
Str(s) == <<"string", s>>
\* an argument that is neither a pointer nor a string
NotString == <<"int", "42">>

\* reflect.TypeOf(target).Elem(), and its Elem() again for a slice
BaseType(target) ==
  IF target[1] = "ptr" /\ target[2] = "responses" THEN "QueryResponse"
  ELSE "string"

IsSlice(target) == target[1] = "ptr" /\ target[2] \in {"l", "responses"}

ItemValue(item, base) == IF item.k = "invalid" THEN Zero(base).v ELSE item.v

\* a loop that sets a slice to the item alone instead of appending to it
RECURSIVE storeOverwrite(_, _, _, _)
storeOverwrite(cur, items, slice, base) ==
  IF items = <<>> THEN cur
  ELSE storeOverwrite(IF slice THEN <<ItemValue(Head(items), base)>>
                      ELSE ItemValue(Head(items), base),
                      Tail(items), slice, base)

\* the loop of arrange over items: Append for a slice, Set for a scalar
RECURSIVE store(_, _, _, _)
store(cur, items, slice, base) ==
  IF items = <<>> THEN cur
  ELSE store(IF slice THEN Append(cur, ItemValue(Head(items), base))
             ELSE ItemValue(Head(items), base),
             Tail(items), slice, base)

\* arrange(data, target, key) on the destination variables m: whether it
\* panicked, and the destination variables after it
arrange(data, target, key, m) ==
  IF target[1] \notin {"ptr", "nilptr"} THEN [panic |-> TRUE, mem |-> m]
  ELSE LET keys == Split(key, ".")
           baseType == BaseType(target)
           items == collect(Decode(data, ShapeOf(keys, baseType)), keys)
       IN  IF items.panic THEN [panic |-> TRUE, mem |-> m]
           ELSE IF target[1] = "nilptr" THEN [panic |-> FALSE, mem |-> m]
           ELSE [panic |-> FALSE,
                 mem |-> [m EXCEPT ![target[2]] =
                            store(@, items.out, IsSlice(target), baseType)]]

----------------------------------------------------------------------------
(* Errors and the ways a call ends.                                        *)

Nil == <<"nil", "none">>
Err(kind) == <<kind, "none">>
\* QFError as an error value
QFError(e) == <<"QFError", e>>

Running == [kind |-> "running", err |-> Nil]
Return(err) == [kind |-> "return", err |-> err]
Panic == [kind |-> "panic", err |-> Nil]

\* json.Unmarshal(b, &respError), its error dropped
DecodeQFError(j) ==
  [Code |-> Field(j, kRespcd, ""),
   Err |-> Field(j, kResperr, ""),
   Messsage |-> Field(j, kRespmsg, "")]

\* no bytes: the body before it is read, an empty []byte
NoBytes == <<"none", "none">>

\* json.Unmarshal(b, dest[0]) of the single-destination mode: the error it
\* returns and the destination variables after it
Unmarshal(j, target, m) ==
  IF target[1] # "ptr" THEN [err |-> Err("InvalidUnmarshalError"), mem |-> m]
  ELSE IF j[1] = "bad" THEN [err |-> Err("SyntaxError"), mem |-> m]
  ELSE IF j[1] = "null" THEN [err |-> Nil, mem |-> m]
  ELSE IF target[2] # "rec" \/ j[1] # "obj"
       THEN [err |-> Err("UnmarshalTypeError"), mem |-> m]
  ELSE [err |-> IF FieldErr(j, kRespcd) \/ FieldErr(j, kOutTradeNo)
                THEN Err("UnmarshalTypeError") ELSE Nil,
        mem |-> [m EXCEPT !.rec = DecodeQueryResponse(j, @)]]

----------------------------------------------------------------------------
(* The signer.  A payload (url.Values built with Set only) is a function   *)
(* from keys to values.                                                    *)

\* the printable ASCII characters in byte order, from the space (byte 32) on
\* (the double quote, the backslash and the backtick, never used here, by name)
Ascii ==
  <<" ", "!", "quote", "#", "$", "%", "&", "'", "(", ")", "*", "+", ",", "-",
    ".", "/", "0", "1", "2", "3", "4", "5", "6", "7", "8", "9", ":", ";",
    "<", "=", ">", "?", "@", "A", "B", "C", "D", "E", "F", "G", "H", "I",
    "J", "K", "L", "M", "N", "O", "P", "Q", "R", "S", "T", "U", "V", "W",
    "X", "Y", "Z", "[", "backslash", "]", "^", "_", "backtick",
    "a", "b", "c", "d", "e",
    "f", "g", "h", "i", "j", "k", "l", "m", "n", "o", "p", "q", "r", "s",
    "t", "u", "v", "w", "x", "y", "z", "{", "|", "}", "~">>

\* the byte of a character
Byte(c) == 31 + (CHOOSE i \in 1..Len(Ascii) : Ascii[i] = c)

\* the character of a byte
Char(code) == Ascii[code - 31]

\* x < y for Go strings: byte-wise lexicographic
RECURSIVE Less(_, _)
Less(x, y) ==
  IF y = <<>> THEN FALSE
  ELSE IF x = <<>> THEN TRUE
  ELSE IF Head(x) = Head(y) THEN Less(Tail(x), Tail(y))
  ELSE Byte(Head(x)) < Byte(Head(y))

RECURSIVE Insert(_, _)
Insert(x, sorted) ==
  IF sorted = <<>> THEN <<x>>
  ELSE IF Less(Head(sorted), x) THEN <<Head(sorted)>> \o Insert(x, Tail(sorted))
  ELSE <<x>> \o sorted

\* parts as it is without sorting
Unsorted(parts) == parts

\* sort.Strings(parts)
RECURSIVE SortStrings(_)
SortStrings(parts) ==
  IF parts = <<>> THEN <<>>
  ELSE Insert(Head(parts), SortStrings(Tail(parts)))

\* fmt.Sprintf("%X", md5.Sum([]byte(joined))): the digest is not computed;
\* it stands as a value that is equal exactly for equal inputs
MD5Hex(joined) == [md5 |-> joined]

\* the parts of GenerateSign, in the order the range over the map yields
Parts(p, order) ==
  [i \in 1..Len(order) |-> order[i] \o <<"=">> \o p[order[i]]]

\* c.GenerateSign(payload), the range over the map yielding the keys in order
GenerateSign(p, order, key) ==
  MD5Hex(Join(SortStrings(Parts(p, order)), <<"&">>) \o key)

HexDigits ==
  <<"0", "1", "2", "3", "4", "5", "6", "7", "8", "9",
    "A", "B", "C", "D", "E", "F">>

\* strconv.Itoa(i)
RECURSIVE Itoa(_)
Itoa(i) ==
  IF i < 0 THEN <<"-">> \o Itoa(-i)
  ELSE IF i < 10 THEN <<HexDigits[i + 1]>>
  ELSE Itoa(i \div 10) \o <<HexDigits[(i % 10) + 1]>>

\* the characters url.QueryEscape leaves as they are
Unreserved(c) ==
  \/ (Byte(c) >= Byte("a") /\ Byte(c) <= Byte("z"))
  \/ (Byte(c) >= Byte("A") /\ Byte(c) <= Byte("Z"))
  \/ (Byte(c) >= Byte("0") /\ Byte(c) <= Byte("9"))
  \/ c \in {"-", "_", ".", "~"}

\* url.QueryEscape(s)
RECURSIVE QueryEscape(_)
QueryEscape(s) ==
  IF s = <<>> THEN <<>>
  ELSE LET c == Head(s)
           e == IF Unreserved(c) THEN <<c>>
                ELSE IF c = " " THEN <<"+">>
                ELSE <<"%", HexDigits[(Byte(c) \div 16) + 1],
                       HexDigits[(Byte(c) % 16) + 1]>>
       IN  e \o QueryEscape(Tail(s))

\* a set of strings as a sequence, in some order
RECURSIVE SetToSeq(_)
SetToSeq(S) ==
  IF S = {} THEN <<>>
  ELSE LET x == CHOOSE x \in S : TRUE IN <<x>> \o SetToSeq(S \ {x})

\* payload.Encode(): "key=value" pairs, escaped, sorted by key, joined by "&"
EncodePairs(p, keys) ==
  [i \in 1..Len(keys) |-> QueryEscape(keys[i]) \o <<"=">> \o QueryEscape(p[keys[i]])]

Encode(p) == Join(EncodePairs(p, SortStrings(SetToSeq(DOMAIN p))), <<"&">>)

----------------------------------------------------------------------------
(* The inputs the calls are tried with.                                    *)

\* a Prefix that http.NewRequestWithContext parses, and one it rejects
GoodPrefix == "https://openapi-hk.qfapi.com"
BadPrefix == ":"

Client(prefix, key, dbg) ==
  [Prefix |-> prefix, AppCode |-> <<"A", "P", "P">>, Key |-> key, Debug |-> dbg]

\* a path expression from its segments
Dotted(segs) == Join(segs, <<".">>)

\* the sequences over E of at most k elements
UpTo(E, k) == UNION {[1..i -> E] : i \in 0..k}

\* a response body with the success sentinel and more fields
Success(fields) == JObj((kRespcd :> JStr("0000")) @@ fields)

\* what the caller's variables hold before a call: zero values, or sentinels
Fresh ==
  [s |-> "", l |-> <<>>, responses |-> <<>>, raw |-> NoBytes,
   rec |-> ZeroQueryResponse]
Sentinel ==
  [s |-> "S", l |-> <<"S">>, responses |-> <<>>, raw |-> JStr("S"),
   rec |-> [Respcd |-> "S", OutTradeNo |-> "S"]]
Prefills == {Fresh, Sentinel}

\* the elements of the arrays under "data", and the values of "data"
Elements ==
  {JObj(EmptyMap), JObj(kB :> JStr("x")), JObj(kB :> JObj(kC :> JStr("y"))),
   JObj(kB :> JArr(<<JStr("x"), JStr("y")>>)), JStr("z"), JArr(<<JStr("x")>>),
   JNull}
ExtractData ==
  {JArr(e) : e \in UpTo(Elements, MaxElems)}
    \cup {JNull, JStr("s"), JNum, JObj(kB :> JStr("x")),
          JObj(kB :> JObj(kC :> JStr("y"))), JObj(kB :> JNull)}
ExtractBodies ==
  {Success(kData :> d) : d \in ExtractData}
    \cup {Success(EmptyMap), JBad, JArr(<<>>)}
ExtractPaths ==
  {Dotted(p) : p \in
    {<<kData>>, <<kData, Star>>, <<kData, Star, kB>>, <<kData, Star, kB, kC>>,
     <<kData, kB>>, <<kData, kB, kC>>, <<kData, Star, Star>>,
     <<kData, Star, kB, Star>>, <<kData, Empty, kB>>, <<Empty>>}}
ExtractTargets == {Ptr("s"), Ptr("l"), NilPtr}

\* the bodies, paths and dest lists Do is tried with
DoElements == {JObj(EmptyMap), JObj(kB :> JStr("x")), JStr("z")}
ErrorBodies ==
  {JBad,
   JObj((kRespcd :> JStr("1001")) @@ (kResperr :> JStr("E"))
          @@ (kRespmsg :> JStr("M"))
          @@ (kData :> JArr(<<JObj(kB :> JStr("x"))>>))),
   JObj(kData :> JArr(<<JObj(kB :> JStr("x"))>>)),
   JObj((kRespcd :> JNum) @@ (kResperr :> JStr("E")))}
SuccessBodies ==
  {Success(kData :> JArr(e)) : e \in UpTo(DoElements, MaxElems)}
    \cup {Success(EmptyMap), Success(kData :> JObj(kB :> JStr("y"))),
          Success(kOutTradeNo :> JStr("T1")), Success(kOutTradeNo :> JNum),
          Success(kData :> JArr(<<JObj((kRespcd :> JStr("0000"))
                                        @@ (kOutTradeNo :> JStr("T1")))>>))}
DoBodies == ErrorBodies \cup SuccessBodies
DoPaths ==
  {Dotted(p) : p \in {<<kRespcd>>, <<kData, Star, kB>>, <<kData, kB>>}}
PairOptions ==
  {<<Ptr(id), Str(p)>> : id \in {"s", "l"}, p \in DoPaths}
    \cup {<<NilPtr, Str(Dotted(<<kRespcd>>))>>, <<Ptr("s"), NotString>>}

RECURSIVE Flatten(_)
Flatten(ps) == IF ps = <<>> THEN <<>> ELSE Head(ps) \o Flatten(Tail(ps))

DestLists ==
  {<<>>, <<Ptr("raw")>>, <<Ptr("rec")>>, <<Ptr("s")>>, <<NotString>>}
    \cup {Flatten(ps) : ps \in UpTo(PairOptions, MaxPairs) \ {<<>>}}
    \cup {Flatten(<<o>>) \o <<Ptr("l")>> : o \in PairOptions}

\* the exchange: a transport error, a failing dump of the response (Debug
\* only), a failing read of the body, or a body
Outcomes ==
  {[k |-> e, v |-> NoBytes] : e \in {"transport", "DumpResponse", "read"}}
    \cup {[k |-> "body", v |-> body] : body \in DoBodies}

TradeNos == {<<>>, <<<<"T", "1">>>>, <<<<"T", "1">>, <<"T", "2">>>>}
NoRequest == [body |-> <<>>, sign |-> MD5Hex(<<>>), signed |-> EmptyMap]

----------------------------------------------------------------------------
(* Request.Do.                                                             *)

\* Do, lines 184-190: with Debug the request is dumped, and a failing dump
\* returns before the exchange
Enter(dumpOk) ==
  IF client.Debug /\ ~dumpOk
  THEN pc' = "done" /\ ret' = Return(Err("DumpRequestOut"))
  ELSE pc' = "exchange" /\ ret' = Running

\* a check that takes a response without a status code for a success
GatewayErrorUnlessNoCode(respError) == respError.Code \notin {"0000", ""}

\* Do, line 210: whether the envelope is a gateway error
GatewayError(respError) == respError.Code # "0000"

\* Do, lines 208-226 but the loop: the envelope check and the modes with no
\* or one destination
Respond(body, d, m) ==
  LET respError == DecodeQFError(body)
  IN  IF GatewayError(respError)
      THEN [pc |-> "done", ret |-> Return(QFError(respError)), mem |-> m]
      ELSE IF Len(d) = 0
      THEN [pc |-> "done", ret |-> Return(Nil), mem |-> m]
      ELSE IF Len(d) > 1
      THEN [pc |-> "loop", ret |-> Running, mem |-> m]
      ELSE IF d[1] = Ptr("raw")
      THEN [pc |-> "done", ret |-> Return(Nil), mem |-> [m EXCEPT !.raw = body]]
      ELSE LET u == Unmarshal(body, d[1], m)
           IN  [pc |-> "done", ret |-> Return(u.err), mem |-> u.mem]

\* a loop that takes the pairs from the last to the first
PairReversed(body, d, i, m) ==
  LET r == Len(d) \div 2 - 1 - i
  IN  IF d[2 * r + 2][1] # "string" THEN [panic |-> TRUE, mem |-> m]
      ELSE arrange(body, d[2 * r + 1], d[2 * r + 2][2], m)

\* Do, line 218: one pass of the loop, for the pair at index i
Pair(body, d, i, m) ==
  IF d[2 * i + 2][1] # "string" THEN [panic |-> TRUE, mem |-> m]
  ELSE arrange(body, d[2 * i + 1], d[2 * i + 2][2], m)

\* Do, lines 184-190: the caller has called req.Do(dest...)
DoBegin(dumpOk) ==
  /\ op = "Do"
  /\ pc = "idle"
  /\ Enter(dumpOk)
  /\ UNCHANGED <<op, dest, client, b, n, mem, mem0, trips, args, payload,
                 orders, signs, req>>

\* Do, lines 191-215 and 222-226: the exchange and what follows it
DoExchange(out) ==
  /\ pc = "exchange"
  /\ out.k = "DumpResponse" => client.Debug
  /\ trips' = trips + 1
  /\ IF out.k # "body"
     THEN /\ pc' = "done"
          /\ ret' = Return(Err(out.k))
          /\ UNCHANGED <<b, mem>>
     ELSE LET r == Respond(out.v, dest, mem)
          IN  /\ b' = out.v
              /\ pc' = r.pc
              /\ ret' = r.ret
              /\ mem' = r.mem
  /\ UNCHANGED <<op, dest, client, n, mem0, args, payload, orders, signs, req>>

\* Do, lines 217-219: one pass of the loop
DoPair ==
  /\ pc = "loop"
  /\ n < Len(dest) \div 2
  /\ LET r == Pair(b, dest, n, mem)
     IN  IF r.panic
         THEN pc' = "done" /\ ret' = Panic /\ UNCHANGED <<mem, n>>
         ELSE pc' = "loop" /\ ret' = Running /\ mem' = r.mem /\ n' = n + 1
  /\ UNCHANGED <<op, dest, client, b, mem0, trips, args, payload, orders,
                 signs, req>>

\* Do, line 220: the loop is over
DoReturn ==
  /\ pc = "loop"
  /\ n >= Len(dest) \div 2
  /\ pc' = "done"
  /\ ret' = Return(Nil)
  /\ UNCHANGED <<op, dest, client, b, n, mem, mem0, trips, args, payload,
                 orders, signs, req>>

----------------------------------------------------------------------------
(* Client.Query.                                                           *)

\* the payload of Query
QueryPayload(outTradeNo) == kOutTradeNo :> Join(outTradeNo, <<",">>)

\* a Query that sends a request for no trade number too
QuerySkipsNever(outTradeNo) == FALSE

\* Query, lines 136-138: whether Query returns before it sends anything
QuerySkips(outTradeNo) == Len(outTradeNo) < 1

\* Query, lines 135-150, and Do's lines 184-190 for the call of line 150
Query(dumpOk) ==
  /\ op = "Query"
  /\ pc = "idle"
  /\ IF QuerySkips(args)
     THEN pc' = "done" /\ ret' = Return(Nil) /\ dest' = <<>> /\ req' = req
     ELSE IF client.Prefix # GoodPrefix
     THEN pc' = "done" /\ ret' = Return(Err("url")) /\ dest' = <<>> /\ req' = req
     ELSE /\ req' = [body |-> Encode(QueryPayload(args)),
                     sign |-> GenerateSign(QueryPayload(args),
                                           <<kOutTradeNo>>, client.Key),
                     signed |-> QueryPayload(args)]
          /\ dest' = <<Ptr("responses"), Str(Dotted(<<kData, Star>>))>>
          /\ Enter(dumpOk)
  /\ UNCHANGED <<op, client, b, n, mem, mem0, trips, args, payload, orders,
                 signs>>

DoClients ==
  {Client(prefix, <<"K">>, dbg) : prefix \in {GoodPrefix, BadPrefix},
                                  dbg \in BOOLEAN}

\* nothing has run yet
Idle ==
  /\ pc = "idle"
  /\ b = NoBytes
  /\ n = 0
  /\ mem = mem0
  /\ ret = Running
  /\ trips = 0
  /\ orders = {}
  /\ signs = {}
  /\ req = NoRequest

\* a caller about to call req.Do(dest...) on a request of the client, its
\* variables holding mem0, or about to call client.Query(args...)
Init ==
  /\ client \in DoClients
  /\ payload = EmptyMap
  /\ \/ /\ op = "Do"
        /\ client.Prefix = GoodPrefix
        /\ dest \in DestLists
        /\ mem0 \in Prefills
        /\ args = <<>>
     \/ /\ op = "Query"
        /\ dest = <<>>
        /\ mem0 = Fresh
        /\ args \in TradeNos
  /\ Idle

Next ==
  \/ \E dumpOk \in BOOLEAN : DoBegin(dumpOk)
  \/ \E out \in Outcomes : DoExchange(out)
  \/ DoPair
  \/ DoReturn
  \/ \E dumpOk \in BOOLEAN : Query(dumpOk)

Spec == Init /\ [][Next]_vars

----------------------------------------------------------------------------
(* arrange, called on its own.                                             *)

\* arrange(b, dest[1], dest[2]) runs
arrangeCall ==
  /\ op = "arrange"
  /\ pc = "idle"
  /\ LET r == arrange(b, dest[1], dest[2][2], mem)
     IN  /\ mem' = r.mem
         /\ ret' = IF r.panic THEN Panic ELSE Return(Nil)
  /\ pc' = "done"
  /\ UNCHANGED <<op, dest, client, b, n, mem0, trips, args, payload, orders,
                 signs, req>>

\* a caller about to call arrange(data, target, key), the variable behind
\* target holding what mem0 says
InitExtract ==
  /\ client = Client(GoodPrefix, <<"K">>, FALSE)
  /\ op = "arrange"
  /\ pc = "idle"
  /\ b \in ExtractBodies
  /\ dest \in {<<target, Str(key)>> : target \in ExtractTargets,
                                       key \in ExtractPaths}
  /\ mem0 \in Prefills
  /\ mem = mem0
  /\ n = 0
  /\ ret = Running
  /\ trips = 0
  /\ args = <<>>
  /\ payload = EmptyMap
  /\ orders = {}
  /\ signs = {}
  /\ req = NoRequest

NextExtract == arrangeCall

SpecExtract == InitExtract /\ [][NextExtract]_vars

----------------------------------------------------------------------------
(* Client.MakePayment and Client.GenerateSign, called on their own.        *)

kTxamt == <<"t", "x", "a", "m", "t">>
kTxcurrcd == <<"t", "x", "c", "u", "r", "r", "c", "d">>
kPayType == <<"p", "a", "y", "_", "t", "y", "p", "e">>
kGoodsName == <<"g", "o", "o", "d", "s", "_", "n", "a", "m", "e">>
kTxdtm == <<"t", "x", "d", "t", "m">>

PayTypeAlipayQRCode == <<"8", "0", "0", "1", "0", "1">>
PayTypePayMeQRCode == <<"8", "0", "5", "8", "0", "1">>

\* the six fields MakePayment sets itself
Builtin(a) ==
  (kTxamt :> Itoa(a.cents)) @@ (kTxcurrcd :> <<"H", "K", "D">>)
    @@ (kPayType :> a.payType) @@ (kOutTradeNo :> a.outTradeNo)
    @@ (kGoodsName :> a.goodsName) @@ (kTxdtm :> a.now)

\* MakePayment, lines 80-89: the payload after the Set calls, the extra
\* fields set last
PaymentPayload(a) == a.extra @@ Builtin(a)

\* a signature over the fields MakePayment set itself only
SignedPayloadBuiltin(a) == Builtin(a)

\* MakePayment, line 96: the payload handed to GenerateSign
SignedPayload(a) == PaymentPayload(a)

\* MakePayment, lines 90-98: the request, its body the encoded payload, its
\* X-QF-SIGN the signature, the range over the map in GenerateSign yielding
\* the keys in order; signed is the payload that was signed
MakePayment(c, a, order) ==
  [body |-> Encode(PaymentPayload(a)),
   sign |-> GenerateSign(SignedPayload(a), order, c.Key),
   signed |-> SignedPayload(a)]

RECURSIVE Reverse(_)
Reverse(q) == IF q = <<>> THEN <<>> ELSE Append(Reverse(Tail(q)), Head(q))

\* all orders a range over a map with keys S can take
Perms(S) ==
  {q \in [1..Cardinality(S) -> S] : \A i, j \in DOMAIN q : i # j => q[i] # q[j]}

\* three of the orders a range over a map with keys S can take
SomeOrders(S) ==
  LET asc == SortStrings(SetToSeq(S))
  IN  {asc, Reverse(asc), Tail(asc) \o <<Head(asc)>>}

PayloadKeys == {<<"a">>, <<"a", "b">>, <<"a", "-">>}
PayloadValues == {<<>>, <<"1">>, <<"2">>}
Payloads ==
  UNION {[K -> PayloadValues] :
           K \in {K \in SUBSET PayloadKeys : Cardinality(K) <= MaxKeys}}

ExtraKeys == {kTxamt, <<"n", "o", "t", "e">>, <<"a", "&", "b">>}
ExtraValues == {<<"9">>, <<"x", " ", "y">>}
Extras ==
  UNION {[K -> ExtraValues] :
           K \in {K \in SUBSET ExtraKeys : Cardinality(K) <= MaxExtra}}

\* time.Now().UTC().Format("2006-01-02 15:04:05") at some moment
Now ==
  <<"2", "0", "2", "4", "-", "0", "1", "-", "0", "2", " ",
    "0", "3", ":", "0", "4", ":", "0", "5">>

MakePaymentArgs ==
  [payType : {PayTypeAlipayQRCode, PayTypePayMeQRCode},
   outTradeNo : {<<"T", "1">>, <<"T", "&", "2">>},
   goodsName : {<<"t", "e", "a">>, <<"a", "=", "b">>},
   cents : {0, 100, -5},
   extra : Extras,
   now : {Now}]

SignClients ==
  {Client(prefix, key, FALSE) : prefix \in {GoodPrefix, BadPrefix},
                                key \in {<<"K">>, <<"L", "2">>}}

\* c.GenerateSign(payload) runs, the range over the map yielding order
GenerateSignCall(order) ==
  /\ op = "GenerateSign"
  /\ orders' = orders \cup {order}
  /\ signs' = signs \cup {GenerateSign(payload, order, client.Key)}
  /\ pc' = "done"
  /\ ret' = Return(Nil)
  /\ UNCHANGED <<op, dest, client, b, n, mem, mem0, trips, args, payload, req>>

\* c.MakePayment(args...) runs: NewRequest fails on a Prefix that does not
\* parse
MakePaymentCall ==
  /\ op = "MakePayment"
  /\ pc = "idle"
  /\ pc' = "done"
  /\ IF client.Prefix # GoodPrefix
     THEN ret' = Return(Err("url")) /\ req' = req
     ELSE /\ ret' = Return(Nil)
          /\ \E order \in SomeOrders(DOMAIN SignedPayload(args)) :
               req' = MakePayment(client, args, order)
  /\ UNCHANGED <<op, dest, client, b, n, mem, mem0, trips, args, payload,
                 orders, signs>>

\* a caller about to sign a payload, or about to call MakePayment(args...)
InitSign ==
  /\ client \in SignClients
  /\ dest = <<>>
  /\ mem0 = Fresh
  /\ \/ /\ op = "GenerateSign"
        /\ payload \in Payloads
        /\ args = <<>>
     \/ /\ op = "MakePayment"
        /\ payload = EmptyMap
        /\ args \in MakePaymentArgs
  /\ Idle

NextSign ==
  \/ \E order \in Perms(DOMAIN payload) : GenerateSignCall(order)
  \/ MakePaymentCall

SpecSign == InitSign /\ [][NextSign]_vars

----------------------------------------------------------------------------
(* What the claims are stated with.                                        *)

\* a value that is not there
Absent == <<"absent", "absent">>

\* the values at keys in the JSON document j, in the order they occur in
\* it: a literal key steps into an object (to Absent when the key is
\* missing), "*" into every element of an array, an empty key nowhere
RECURSIVE Walk(_, _)
RECURSIVE WalkEach(_, _, _)
WalkEach(elems, keys, i) ==
  IF i > Len(elems) THEN <<>>
  ELSE Walk(elems[i], keys) \o WalkEach(elems, keys, i + 1)

Walk(j, keys) ==
  IF keys = <<>> THEN <<j>>
  ELSE IF Head(keys) = Star
       THEN IF j[1] = "arr" THEN WalkEach(j[2], Tail(keys), 1) ELSE <<>>
  ELSE IF Head(keys) # Empty
       THEN Walk(IF j[1] = "obj" /\ Head(keys) \in DOMAIN j[2]
                 THEN j[2][Head(keys)] ELSE Absent, Tail(keys))
  ELSE Walk(j, Tail(keys))

\* a found value as a string destination takes it: the zero value unless
\* it is a JSON string
AsString(j) == IF j[1] = "str" THEN j[2] ELSE ""

\* the strings at path key in the body, one per value found, in order
Found(body, key) ==
  LET w == Walk(body, Split(key, ".")) IN [i \in 1..Len(w) |-> AsString(w[i])]

HasWildcard(key) == \E i \in 1..Len(key) : key[i] = "*"

\* the call is arrange(b, target, key) and it is over
Arranged(target) == op = "arrange" /\ pc = "done" /\ dest[1] = target

\* Do (called by the caller or by Query) has read a body
HasBody == op \in {"Do", "Query"} /\ b # NoBytes

\* every pair of dest is a pointer followed by a path string
WellFormed(d) ==
  \A i \in 1..Len(d) :
    IF i % 2 = 1 THEN d[i][1] \in {"ptr", "nilptr"} ELSE d[i][1] = "string"

\* the status code of the envelope decoded from the body Do has read
Code == DecodeQFError(b).Code

\* Do has read a body with the success sentinel and at least two dest
MultiMode == HasBody /\ Code = "0000" /\ Len(dest) > 1

\* the destination variables after the first i pairs of dest were extracted
\* from b one after the other, starting from mem0
RECURSIVE Filled(_)
Filled(i) ==
  IF i = 0 THEN mem0
  ELSE IF dest[2 * i][1] # "string" THEN Filled(i - 1)
  ELSE arrange(b, dest[2 * i - 1], dest[2 * i][2], Filled(i - 1)).mem

\* what the first i pairs of dest find in b for the variable id, pair after
\* pair
RECURSIVE AppendedTo(_, _)
AppendedTo(id, i) ==
  IF i = 0 THEN <<>>
  ELSE AppendedTo(id, i - 1)
         \o (IF dest[2 * i - 1] = Ptr(id) /\ dest[2 * i][1] = "string"
             THEN Found(b, dest[2 * i][2]) ELSE <<>>)

\* the strings of S in ascending byte order, the least one first
RECURSIVE Ascending(_)
Ascending(S) ==
  IF S = {} THEN <<>>
  ELSE LET least == CHOOSE x \in S : \A y \in S : ~Less(y, x)
       IN  <<least>> \o Ascending(S \ {least})

\* the "key=value" strings of payload p in ascending order, joined by "&"
CanonicalJoin(p) ==
  Join(Ascending({k \o <<"=">> \o p[k] : k \in DOMAIN p}), <<"&">>)

\* the value of a hexadecimal digit
HexVal(c) == (CHOOSE i \in 1..Len(HexDigits) : HexDigits[i] = c) - 1

\* url.QueryUnescape(s), as the gateway decodes a form body
RECURSIVE QueryUnescape(_)
QueryUnescape(s) ==
  IF s = <<>> THEN <<>>
  ELSE IF Head(s) = "+" THEN <<" ">> \o QueryUnescape(Tail(s))
  ELSE IF Head(s) = "%"
       THEN <<Char(16 * HexVal(s[2]) + HexVal(s[3]))>>
              \o QueryUnescape(SubSeq(s, 4, Len(s)))
  ELSE <<Head(s)>> \o QueryUnescape(Tail(s))

\* the key and the value of one "key=value" segment of a form body
ParsePair(seg) ==
  LET eqs == {i \in 1..Len(seg) : seg[i] = "="}
      at == IF eqs = {} THEN Len(seg) + 1
            ELSE CHOOSE i \in eqs : \A j \in eqs : i <= j
  IN  <<QueryUnescape(SubSeq(seg, 1, at - 1)),
        QueryUnescape(SubSeq(seg, at + 1, Len(seg)))>>

\* url.ParseQuery(body): the key/value set a form body transmits
ParseQuery(body) ==
  LET segs == Split(body, "&")
      pairs == {ParsePair(segs[i]) : i \in {i \in 1..Len(segs) : segs[i] # <<>>}}
  IN  [k \in {pr[1] : pr \in pairs} |-> (CHOOSE pr \in pairs : pr[1] = k)[2]]

----------------------------------------------------------------------------
(* The claims.                                                             *)

\* C1: whenever Do has read a response body whose decoded respcd is not
\* "0000", with no, one or any number of dest arguments, Do is over, the
\* error it returned is the decoded envelope (respcd, resperr, respmsg) and
\* every destination variable holds what it held before the call.
C1_GatewayErrorShortCircuit ==
  (HasBody /\ Code # "0000") =>
    /\ pc = "done"
    /\ ret = Return(QFError(DecodeQFError(b)))
    /\ mem = mem0

\* Do, called with two pairs on sentinel-filled variables, has returned the
\* envelope of a gateway error
C1_Witness ==
  /\ HasBody
  /\ pc = "done"
  /\ Len(dest) = 4
  /\ mem0 = Sentinel
  /\ ret = Return(QFError([Code |-> "1001", Err |-> "E", Messsage |-> "M"]))

\* C2: every signature GenerateSign returns for a payload, whatever the
\* order in which the range over the map yields the keys, is the digest of
\* the ascending "key=value" strings joined by "&" and followed directly by
\* the secret key; so all signatures of one payload are the same.
C2_SignIndependentOfOrder ==
  op = "GenerateSign" =>
    \A sg \in signs : sg = MD5Hex(CanonicalJoin(payload) \o client.Key)

\* GenerateSign has run with two different orders on one payload
C2_Witness ==
  op = "GenerateSign" /\ Cardinality(orders) >= 2 /\ Cardinality(signs) = 1

\* C3: a key absent at any level of the path never makes the extraction
\* fail or abort: for a response body that is a JSON object and any path,
\* arrange completes normally, and every absent value reaches a growable
\* destination as the zero value of its element type.
C3_AbsentKeyNeverAborts ==
  (op = "arrange" /\ pc = "done" /\ b[1] = "obj") =>
    /\ ret = Return(Nil)
    /\ dest[1] = Ptr("l") =>
         LET w == Walk(b, Split(dest[2][2], "."))
         IN  /\ Len(mem.l) = Len(mem0.l) + Len(w)
             /\ \A i \in 1..Len(w) :
                  w[i] = Absent => mem.l[Len(mem0.l) + i] = ""

\* C4: for a path with wildcard segments and a growable destination, the
\* extraction appends exactly one value per array element the path
\* traverses, in the order the elements occur in the body, the zero value
\* standing for an element whose trailing key is missing.
C4_WildcardAppendsInOrder ==
  (Arranged(Ptr("l")) /\ b[1] = "obj" /\ HasWildcard(dest[2][2])) =>
    mem.l = mem0.l \o Found(b, dest[2][2])

\* C5 as stated: every logical call (Do, and Query for any argument list)
\* has made exactly one network round trip when it is over.
C5_ExactlyOneRoundTrip == pc = "done" => trips = 1

\* whether the call ended before it sent anything: Query for no trade
\* number, Query failing to build its request, or the dump of the outgoing
\* request failing under Debug
EndedUnsent ==
  \/ (op = "Query" /\ Len(args) < 1)
  \/ (op = "Query" /\ client.Prefix # GoodPrefix)
  \/ ret = Return(Err("DumpRequestOut"))

\* C5 as amended: a call never makes more than one round trip; when it is
\* over it has made exactly one, unless it ended before sending anything,
\* and then it has made none.
C5_OneRoundTripUnlessUnsent ==
  /\ trips <= 1
  /\ pc = "exchange" => trips = 0
  /\ pc = "loop" => trips = 1
  /\ pc = "done" => trips = IF EndedUnsent THEN 0 ELSE 1

\* Query for two trade numbers is over with a gateway error after one trip
C5_Witness ==
  /\ op = "Query"
  /\ pc = "done"
  /\ Len(args) = 2
  /\ ret.err[1] = "QFError"
  /\ trips = 1

\* C6: when the gateway status is the success sentinel, Do is over as the
\* number of dest arguments says: with none it returned nil and wrote
\* nothing; with one *[]byte it stored the body verbatim and returned nil;
\* with one other destination it decoded the body into it and returned the
\* decode error, if any; with two or more (pointer, path string) it used
\* path extraction and returned nil.
C6_ModeByDestinationCount ==
  (op = "Do" /\ pc = "done" /\ b # NoBytes /\ Code = "0000" /\ WellFormed(dest)) =>
    IF Len(dest) = 0 THEN ret = Return(Nil) /\ mem = mem0
    ELSE IF dest = <<Ptr("raw")>>
    THEN ret = Return(Nil) /\ mem = [mem0 EXCEPT !.raw = b]
    ELSE IF dest = <<Ptr("rec")>>
    THEN /\ mem = [mem0 EXCEPT !.rec = DecodeQueryResponse(b, @)]
         /\ ret = Return(IF FieldErr(b, kRespcd) \/ FieldErr(b, kOutTradeNo)
                         THEN Err("UnmarshalTypeError") ELSE Nil)
    ELSE IF Len(dest) = 1 THEN ret.kind = "return" /\ ret.err # Nil
    ELSE ret = Return(Nil)

\* C7: in the mode with pairs, the destination variables hold what the
\* first n pairs, extracted one after the other in the order supplied,
\* leave in them: a pair is never undone, and the pairs from the one the
\* loop stops at (a panic) are not extracted; the loop returns only after
\* the last pair.
C7_PairsInOrderNoRollback ==
  MultiMode =>
    /\ n <= Len(dest) \div 2
    /\ mem = Filled(n)
    /\ ret = Return(Nil) => n = Len(dest) \div 2
    /\ ret = Panic => n < Len(dest) \div 2

\* Do stopped at its second pair, whose path is not a string, the first
\* pair's destination filled
C7_Witness ==
  /\ MultiMode
  /\ ret = Panic
  /\ n = 1
  /\ Len(dest) = 4
  /\ dest[4] = NotString
  /\ mem # mem0

\* C8: after an extraction into a scalar-pointer destination, for every
\* response body that is a JSON object and every path, the destination
\* holds the single value found at the path, or the zero value if none was
\* found, whatever it held before.
C8_ScalarHoldsValueOrZero ==
  (Arranged(Ptr("s")) /\ b[1] = "obj") =>
    LET f == Found(b, dest[2][2])
    IN  /\ Len(f) = 1 => mem.s = f[1]
        /\ Len(f) = 0 => mem.s = ""

\* C9: the request MakePayment returns is signed over exactly the key/value
\* set its form body transmits: the six built-in fields and every extra
\* field, an extra field replacing the built-in field of the same name in
\* both.
C9_SignedSetIsTransmittedSet ==
  (op = "MakePayment" /\ pc = "done" /\ ret = Return(Nil)) =>
    /\ ParseQuery(req.body) = req.signed
    /\ DOMAIN req.signed = DOMAIN Builtin(args) \cup DOMAIN args.extra
    /\ \A k \in DOMAIN req.signed :
         req.signed[k] = IF k \in DOMAIN args.extra THEN args.extra[k]
                         ELSE Builtin(args)[k]
    /\ req.sign = MD5Hex(CanonicalJoin(ParseQuery(req.body)) \o client.Key)

\* MakePayment has built a request with an extra field named like a
\* built-in one
C9_Witness ==
  /\ op = "MakePayment"
  /\ pc = "done"
  /\ ret = Return(Nil)
  /\ kTxamt \in DOMAIN args.extra
  /\ req.signed[kTxamt] = <<"9">>

\* C10: the extractions of one Do call into a growable destination only
\* append: after the first n pairs the destination holds what it held
\* before the call, followed by what each of these pairs found for it, in
\* the order of the pairs.
C10_SliceOnlyAppends ==
  (op = "Do" /\ MultiMode) => mem.l = mem0.l \o AppendedTo("l", n)

\* Do has returned after two pairs into the same, pre-filled []string
C10_Witness ==
  /\ op = "Do"
  /\ MultiMode
  /\ ret = Return(Nil)
  /\ Len(dest) = 4
  /\ dest[1] = Ptr("l")
  /\ dest[3] = Ptr("l")
  /\ mem0.l = <<"S">>
  /\ Len(mem.l) >= 3
=============================================================================
